---- MODULE Spec2Model ----
(***************************************************************************)
(* Notes Organizer Backend (src/backend/main.py): the JSON-file note store *)
(* and its four request handlers.                                          *)
(*                                                                         *)
(* A text (a str, the content of notes.json) is a sequence of atoms.  An   *)
(* atom is one character, or a run of characters that is always written    *)
(* and read as a unit and holds no character JSON treats specially (a key  *)
(* name, a uuid, a run of indentation spaces).                             *)
(***************************************************************************)
EXTENDS Integers, Sequences, FiniteSets, TLC

-----------------------------------------------------------------------------
(* Bounds of the model.                                                    *)

\* Number of request-handling threads of the server's thread pool.
NumWorkers == 2
\* uuid4 is drawn at most MaxIds times.
MaxIds == 2

-----------------------------------------------------------------------------
(* Characters.                                                             *)

QUOTE == "\""
BSLASH == "\\"
NEWLINE == "\n"
\* A byte sequence that is not valid UTF-8.
BADBYTE == "0xff"
\* Runs of 2, 4 and 6 spaces: json.dump's indentation at levels 1, 2, 3.
Spaces == <<"  ", "    ", "      ">>
WHITESPACE == {NEWLINE, " "} \cup {Spaces[k] : k \in 1..3}

-----------------------------------------------------------------------------
(* JSON values as Python holds them: str, list, dict (insertion ordered).  *)

JStr(s) == [t |-> "str", s |-> s, keys |-> <<>>, kids |-> <<>>]
JArr(kids) == [t |-> "arr", s |-> <<>>, keys |-> <<>>, kids |-> kids]
JObj(keys, kids) == [t |-> "obj", s |-> <<>>, keys |-> keys, kids |-> kids]
\* None: JSON's null, and what dict.get gives for a key that is not there.
JNone == [t |-> "none", s |-> <<>>, keys |-> <<>>, kids |-> <<>>]

RECURSIVE EscapeQuoteOnly(_)
\* Escape, were the backslash left out of the escape table.
EscapeQuoteOnly(s) ==
  IF s = <<>> THEN <<>>
  ELSE LET c == Head(s) IN
       (CASE c = QUOTE -> <<BSLASH, QUOTE>>
          [] c = NEWLINE -> <<BSLASH, "n">>
          [] OTHER -> <<c>>) \o EscapeQuoteOnly(Tail(s))

RECURSIVE Escape(_)
\* json.encoder.py_encode_basestring (ensure_ascii=False): ESCAPE_DCT.
Escape(s) ==
  IF s = <<>> THEN <<>>
  ELSE LET c == Head(s) IN
       (CASE c = QUOTE -> <<BSLASH, QUOTE>>
          [] c = BSLASH -> <<BSLASH, BSLASH>>
          [] c = NEWLINE -> <<BSLASH, "n">>
          [] OTHER -> <<c>>) \o Escape(Tail(s))

EncodeStr(s) == <<QUOTE>> \o Escape(s) \o <<QUOTE>>

\* '\n' + indent * level, indent = 2 spaces.
NewlineIndent(level) ==
  IF level = 0 THEN <<NEWLINE>> ELSE <<NEWLINE, Spaces[level]>>

RECURSIVE Encode(_, _), EncodeItems(_, _, _), EncodeMembers(_, _, _, _)
\* json.encoder._make_iterencode: _iterencode, with indent=2.
Encode(v, level) ==
  CASE v.t = "str" -> EncodeStr(v.s)
    [] v.t = "none" -> <<"null">>
    [] v.t = "arr" ->
         IF v.kids = <<>> THEN <<"[", "]">>
         ELSE <<"[">> \o EncodeItems(v.kids, 1, level + 1)
                \o NewlineIndent(level) \o <<"]">>
    [] v.t = "obj" ->
         IF v.keys = <<>> THEN <<"{", "}">>
         ELSE <<"{">> \o EncodeMembers(v.keys, v.kids, 1, level + 1)
                \o NewlineIndent(level) \o <<"}">>

\* _iterencode_list: items from the k-th on, each on its own line.
EncodeItems(kids, k, level) ==
  IF k > Len(kids) THEN <<>>
  ELSE (IF k > 1 THEN <<",">> ELSE <<>>)
         \o NewlineIndent(level) \o Encode(kids[k], level)
         \o EncodeItems(kids, k + 1, level)

\* _iterencode_dict: "key": value, each on its own line.
EncodeMembers(keys, kids, k, level) ==
  IF k > Len(keys) THEN <<>>
  ELSE (IF k > 1 THEN <<",">> ELSE <<>>)
         \o NewlineIndent(level) \o EncodeStr(keys[k]) \o <<":", " ">>
         \o Encode(kids[k], level)
         \o EncodeMembers(keys, kids, k + 1, level)

\* json.dump(notes, f, indent=2, ensure_ascii=False): the text written.
JsonDump(notes) == Encode(JArr(notes), 0)

-----------------------------------------------------------------------------
(* json.load.                                                              *)

RECURSIVE ScanString(_, _, _)
\* json.decoder.py_scanstring (strict): text[i] is the atom after the
\* opening quote, acc the characters decoded so far.
ScanString(text, i, acc) ==
  IF i > Len(text) THEN [ok |-> FALSE, s |-> <<>>, next |-> 0]
  ELSE LET c == text[i] IN
    CASE c = QUOTE -> [ok |-> TRUE, s |-> acc, next |-> i + 1]
      [] c = NEWLINE -> [ok |-> FALSE, s |-> <<>>, next |-> 0]
      [] c = BSLASH ->
           IF i + 1 > Len(text) THEN [ok |-> FALSE, s |-> <<>>, next |-> 0]
           ELSE LET e == text[i + 1] IN
             IF e \in {QUOTE, BSLASH}
               THEN ScanString(text, i + 2, Append(acc, e))
             ELSE IF e = "n"
               THEN ScanString(text, i + 2, Append(acc, NEWLINE))
             ELSE [ok |-> FALSE, s |-> <<>>, next |-> 0]
      [] OTHER -> ScanString(text, i + 1, Append(acc, c))

\* The character at index i, or "" when the text ends before it.
At(text, i) == IF i <= Len(text) THEN text[i] ELSE ""

RECURSIVE SkipWs(_, _)
\* json.decoder.WHITESPACE.match(s, i).end()
SkipWs(text, i) ==
  IF At(text, i) \in WHITESPACE THEN SkipWs(text, i + 1) ELSE i

ParseFail == [ok |-> FALSE, val |-> JStr(<<>>), next |-> 0]
ParseOk(val, next) == [ok |-> TRUE, val |-> val, next |-> next]

\* Python's dict: assigning to a key already present replaces its value
\* in place, a new key is appended.
DictSet(d, key, val) ==
  IF \E k \in 1..Len(d.keys) : d.keys[k] = key
    THEN JObj(d.keys, [k \in 1..Len(d.keys) |->
                         IF d.keys[k] = key THEN val ELSE d.kids[k]])
    ELSE JObj(Append(d.keys, key), Append(d.kids, val))

RECURSIVE ScanOnce(_, _), ArrayItems(_, _, _), ObjectMembers(_, _, _)
\* json.scanner.py_make_scanner: _scan_once, the value that starts at
\* text[i].
ScanOnce(text, i) ==
  CASE At(text, i) = QUOTE ->
         LET r == ScanString(text, i + 1, <<>>) IN
           IF r.ok THEN ParseOk(JStr(r.s), r.next) ELSE ParseFail
    [] At(text, i) = "[" ->
         LET j == SkipWs(text, i + 1) IN
           IF At(text, j) = "]" THEN ParseOk(JArr(<<>>), j + 1)
           ELSE ArrayItems(text, j, <<>>)
    [] At(text, i) = "{" ->
         LET j == SkipWs(text, i + 1) IN
           IF At(text, j) = "}" THEN ParseOk(JObj(<<>>, <<>>), j + 1)
           ELSE ObjectMembers(text, j, JObj(<<>>, <<>>))
    [] At(text, i) = "null" -> ParseOk(JNone, i + 1)
    [] OTHER -> ParseFail

\* json.decoder.JSONArray: the loop over the values, the next one
\* starting at text[i]; acc the values read so far.
ArrayItems(text, i, acc) ==
  LET r == ScanOnce(text, i)
      j == SkipWs(text, r.next) IN
    IF ~r.ok THEN ParseFail
    ELSE IF At(text, j) = "]" THEN ParseOk(JArr(Append(acc, r.val)), j + 1)
    ELSE IF At(text, j) = ","
      THEN ArrayItems(text, SkipWs(text, j + 1), Append(acc, r.val))
    ELSE ParseFail

\* json.decoder.JSONObject: the loop over the members, the next key
\* starting at text[i]; d the dict built so far.
ObjectMembers(text, i, d) ==
  IF At(text, i) # QUOTE THEN ParseFail
  ELSE LET k == ScanString(text, i + 1, <<>>)
           c == SkipWs(text, k.next)
           r == ScanOnce(text, SkipWs(text, c + 1))
           j == SkipWs(text, r.next) IN
    IF ~k.ok \/ At(text, c) # ":" THEN ParseFail
    ELSE IF ~r.ok THEN ParseFail
    ELSE IF At(text, j) = "}" THEN ParseOk(DictSet(d, k.s, r.val), j + 1)
    ELSE IF At(text, j) = ","
      THEN ObjectMembers(text, SkipWs(text, j + 1), DictSet(d, k.s, r.val))
    ELSE ParseFail

\* json.load(f): f.read() decodes the bytes as UTF-8 (UnicodeDecodeError),
\* then one value, whitespace around it, must span the whole text
\* (JSONDecodeError otherwise).
JsonLoad(text) ==
  IF \E i \in 1..Len(text) : text[i] = BADBYTE THEN ParseFail
  ELSE LET r == ScanOnce(text, SkipWs(text, 1)) IN
    IF r.ok /\ SkipWs(text, r.next) = Len(text) + 1 THEN r ELSE ParseFail

-----------------------------------------------------------------------------
(* Notes, requests and responses.                                          *)

KeyId == <<"id">>
KeyTitle == <<"title">>
KeyContent == <<"content">>
KeyTags == <<"tags">>

\* n.get(key)
DictGet(d, key) ==
  IF \E k \in 1..Len(d.keys) : d.keys[k] = key
    THEN d.kids[CHOOSE k \in 1..Len(d.keys) : d.keys[k] = key]
    ELSE JNone

\* A field of a request body as sent: left out, null, or a value.
Absent == [st |-> "absent", v |-> <<>>]
Null == [st |-> "null", v |-> <<>>]
Value(v) == [st |-> "value", v |-> v]

\* An Optional attribute of a parsed payload: None or a value.
None == [none |-> TRUE, v |-> <<>>]
Some(v) == [none |-> FALSE, v |-> v]

\* NoteBase.title: str, required, min_length=1.
TitleAccepted(f) == f.st = "value" /\ Len(f.v) >= 1

\* NoteCreate(NoteBase): whether the body passes validation (else 422).
NoteCreateValid(body) ==
  /\ TitleAccepted(body.title)
  /\ body.content.st # "null"

\* NoteCreate(NoteBase): the parsed payload, defaults applied.
NoteCreate(body) ==
  [title |-> body.title.v,
   content |-> IF body.content.st = "absent" THEN <<>> ELSE body.content.v,
   tags |-> CASE body.tags.st = "absent" -> Some(<<>>)
              [] body.tags.st = "null" -> None
              [] OTHER -> Some(body.tags.v)]

\* An Optional field of NoteUpdate, default None.
OptionalField(f) == IF f.st = "value" THEN Some(f.v) ELSE None

\* NoteUpdate(BaseModel): every body passes; the parsed payload.
NoteUpdate(body) ==
  [title |-> OptionalField(body.title),
   content |-> OptionalField(body.content),
   tags |-> OptionalField(body.tags)]

\* A list of str as a JSON value.
StrList(tags) == JArr([k \in 1..Len(tags) |-> JStr(tags[k])])

\* response_model=Note: the returned dict must validate as a Note, whose
\* title is NoteBase's (min_length=1); FastAPI answers 500 otherwise.
NoteValid(n) ==
  /\ DictGet(n, KeyId).t = "str"
  /\ DictGet(n, KeyTitle).t = "str" /\ Len(DictGet(n, KeyTitle).s) >= 1
  /\ DictGet(n, KeyContent).t \in {"str", "none"}
  /\ DictGet(n, KeyTags).t \in {"arr", "none"}

\* A response: the status code and the notes of its body.
Response(status, body) == [status |-> status, body |-> body]
NoResponse == Response(0, <<>>)

\* The response to a handler's return of the notes `body`, validated
\* against the response model.
Validated(status, body) ==
  IF \A k \in 1..Len(body) : NoteValid(body[k])
    THEN Response(status, body) ELSE Response(500, <<>>)

-----------------------------------------------------------------------------
(* The data file.                                                          *)

\* DATA_FILE: whether it exists, what the process may do with it
\* ("rw": read and write, "r": read only, "w": write only, "none":
\* neither), its content.
File(exists, access, text) ==
  [exists |-> exists, access |-> access, text |-> text]

\* _load_notes, were data that is no list wrapped in one instead of
\* discarded.
LoadNotesNoTypeCheck(f) ==
  IF ~f.exists THEN <<>>
  ELSE IF f.access \notin {"rw", "r"} THEN <<>>
  ELSE LET r == JsonLoad(f.text) IN
    IF ~r.ok THEN <<>>
    ELSE IF r.val.t = "arr" THEN r.val.kids
    ELSE <<r.val>>

\* _load_notes
LoadNotes(f) ==
  IF ~f.exists THEN <<>>
  ELSE IF f.access \notin {"rw", "r"} THEN <<>>
  ELSE LET r == JsonLoad(f.text) IN
    IF ~r.ok THEN <<>>
    ELSE IF r.val.t = "arr" THEN r.val.kids
    ELSE <<>>

\* DATA_FILE.open("w") raises (PermissionError) on a file the process may
\* not write.
OpenFails(f) == f.exists /\ f.access \in {"r", "none"}

\* DATA_FILE.open("w"): the file is created if missing and truncated.
Truncated(f) == File(TRUE, IF f.exists THEN f.access ELSE "rw", <<>>)

\* f.write at offset 0 of a file opened "w", flushed on close: the text
\* replaces the first Len(text) characters and what lies beyond them stays.
Written(f, text) ==
  File(f.exists, f.access, text \o SubSeq(f.text, Len(text) + 1, Len(f.text)))

-----------------------------------------------------------------------------
(* What the handlers compute between _load_notes and _save_notes.          *)

\* create_note, were the new note appended.
InsertLast(notes, n) == notes \o <<n>>

\* notes.insert(0, new_note)
Insert0(notes, n) == <<n>> \o notes

\* create_note: new_note.
NewNote(id, payload) ==
  JObj(<<KeyId, KeyTitle, KeyContent, KeyTags>>,
       <<JStr(id), JStr(payload.title), JStr(payload.content),
         StrList(IF payload.tags.none THEN <<>> ELSE payload.tags.v)>>)

\* update_note, were the comparison of the ids inverted.
MatchesOther(notes, note_id) ==
  {k \in 1..Len(notes) : DictGet(notes[k], KeyId) # JStr(note_id)}

\* update_note: the indexes idx with n.get("id") == note_id.
Matches(notes, note_id) ==
  {k \in 1..Len(notes) : DictGet(notes[k], KeyId) = JStr(note_id)}

\* update_note: the first such index, where the loop returns.
FirstMatch(notes, note_id) ==
  CHOOSE k \in Matches(notes, note_id) :
    \A j \in Matches(notes, note_id) : k <= j

\* update_note, were the three assignments made without the tests for
\* None.
ApplyUpdateUnconditional(n, payload) ==
  LET value(field, v) == IF field.none THEN JNone ELSE v
      n1 == DictSet(n, KeyTitle, value(payload.title, JStr(payload.title.v)))
      n2 == DictSet(n1, KeyContent, value(payload.content, JStr(payload.content.v)))
  IN DictSet(n2, KeyTags, value(payload.tags, StrList(payload.tags.v)))

\* update_note: n after the three conditional assignments.
ApplyUpdate(n, payload) ==
  LET n1 == IF ~payload.title.none
              THEN DictSet(n, KeyTitle, JStr(payload.title.v)) ELSE n
      n2 == IF ~payload.content.none
              THEN DictSet(n1, KeyContent, JStr(payload.content.v)) ELSE n1
  IN IF ~payload.tags.none
       THEN DictSet(n2, KeyTags, StrList(payload.tags.v)) ELSE n2

\* update_note: notes[idx] = n
Updated(notes, note_id, payload) ==
  LET idx == FirstMatch(notes, note_id) IN
    [notes EXCEPT ![idx] = ApplyUpdate(notes[idx], payload)]

\* delete_note, were the filter inverted.
FilteredInverted(notes, note_id) ==
  SelectSeq(notes, LAMBDA n : DictGet(n, KeyId) = JStr(note_id))

\* delete_note: filtered.
Filtered(notes, note_id) ==
  SelectSeq(notes, LAMBDA n : DictGet(n, KeyId) # JStr(note_id))

\* The k-th value that uuid4 returns in a run, whatever it is: the
\* handlers only compare ids for equality.
IdOf(k) == <<"u" \o ToString(k)>>
AllIds == {IdOf(k) : k \in 1..MaxIds}

\* A generator that returns the same value again.
Uuid4Repeats(drawn) == IdOf(1)

\* str(uuid4()): a version-4 UUID, taken not to repeat; `drawn` are the
\* values returned so far.
Uuid4(drawn) == IdOf(Cardinality(drawn) + 1)

-----------------------------------------------------------------------------
(* Requests the model sends.                                               *)

Body(title, content, tags) ==
  [title |-> title, content |-> content, tags |-> tags]
Request(op, id, body) == [op |-> op, id |-> id, body |-> body]
NoRequest == Request("none", <<>>, Body(Absent, Absent, Absent))

\* The values the requests carry: a title, a content and a list of tags
\* holding the characters that json.dump escapes or that delimit JSON.
TitleA == <<"a", QUOTE>>
ContentC == <<NEWLINE, BSLASH, "n">>
TagsT == <<<<"]">>, <<>>>>

\* Bodies of POST /notes: three that pass NoteCreate, four that do not.
CreateBodies ==
  {Body(Value(TitleA), Absent, Absent),
   Body(Value(TitleA), Value(ContentC), Value(TagsT)),
   Body(Value(TitleA), Value(<<>>), Null),
   Body(Value(<<>>), Absent, Absent),
   Body(Absent, Value(ContentC), Absent),
   Body(Null, Absent, Value(TagsT)),
   Body(Value(TitleA), Null, Absent)}

\* Bodies of PUT /notes/{note_id}: each field left out, null, or a value.
UpdateBodies ==
  {Body(Absent, Absent, Absent),
   Body(Value(TitleA), Absent, Absent),
   Body(Value(<<>>), Absent, Absent),
   Body(Null, Value(ContentC), Absent),
   Body(Absent, Value(<<>>), Null),
   Body(Absent, Null, Value(TagsT)),
   Body(Absent, Absent, Value(<<>>)),
   Body(Null, Null, Null),
   Body(Value(TitleA), Value(ContentC), Value(TagsT)),
   Body(Value(<<>>), Value(<<>>), Value(<<>>))}

\* The bodies sent when requests overlap.
FewCreateBodies == {Body(Value(TitleA), Absent, Null)}
FewUpdateBodies == {Body(Absent, Value(ContentC), Absent)}

\* The data file when the server starts: missing; empty; cut short; not
\* UTF-8; JSON that is no array (an object, a string); an empty array.
StartTexts ==
  {<<>>, <<"[">>, <<BADBYTE>>, <<"{", "}">>, <<QUOTE, "a", QUOTE>>,
   <<"[", "]">>}
StartFiles ==
  {File(FALSE, "rw", <<>>)} \cup {File(TRUE, "rw", t) : t \in StartTexts}
\* The same, and the files the process has no permission to read or to
\* write.
StartFilesAnyAccess ==
  StartFiles \cup {File(TRUE, a, <<"[", "]">>) : a \in {"w", "none"}}
             \cup {File(TRUE, "r", <<"[">>)}

-----------------------------------------------------------------------------
(* State.                                                                  *)

VARIABLES
  file,     \* DATA_FILE
  drawn,    \* the uuids uuid4 has returned
  pc,       \* per worker thread: "idle"; "open" (about to DATA_FILE.open("w"));
            \* "write" (the file is open and truncated, nothing written
            \* yet); "done" (the handler has returned, the response is out)
  req,      \* per worker: the request it serves
  notes,    \* per worker: the handler's local list `notes` / `filtered`
  resp,     \* per worker: the response
  before,   \* per worker: DATA_FILE as it was when the request arrived
  stable,   \* the list the last completed _save_notes wrote
  created,  \* ids of the notes a 201 response returned
  deleted   \* ids a 200 response of delete_note confirmed

vars == <<file, drawn, pc, req, notes, resp, before, stable, created, deleted>>

Workers == 1..NumWorkers

InitWith(files) ==
  /\ file \in files
  /\ drawn = {}
  /\ pc = [w \in Workers |-> "idle"]
  /\ req = [w \in Workers |-> NoRequest]
  /\ notes = [w \in Workers |-> <<>>]
  /\ resp = [w \in Workers |-> NoResponse]
  /\ before = [w \in Workers |-> File(FALSE, "rw", <<>>)]
  /\ stable = LoadNotes(file)
  /\ created = {}
  /\ deleted = {}

\* A request arrives at idle worker w.
Arrives(w, r) ==
  /\ pc[w] = "idle"
  /\ req' = [req EXCEPT ![w] = r]
  /\ before' = [before EXCEPT ![w] = file]

\* The handler returns without saving.
Returns(w, response, local) ==
  /\ pc' = [pc EXCEPT ![w] = "done"]
  /\ resp' = [resp EXCEPT ![w] = response]
  /\ notes' = [notes EXCEPT ![w] = local]
  /\ UNCHANGED <<file, stable, created, deleted>>

\* The handler goes on to _save_notes(local).
GoesToSave(w, local) ==
  /\ pc' = [pc EXCEPT ![w] = "open"]
  /\ resp' = [resp EXCEPT ![w] = NoResponse]
  /\ notes' = [notes EXCEPT ![w] = local]
  /\ UNCHANGED <<file, stable, created, deleted>>

\* list_notes
ListNotes(w) ==
  LET loaded == LoadNotes(file) IN
  /\ Arrives(w, Request("list", <<>>, Body(Absent, Absent, Absent)))
  /\ Returns(w, Validated(200, loaded), loaded)
  /\ UNCHANGED drawn

\* create_note, up to the call of _save_notes.
CreateNote(w, body) ==
  LET loaded == LoadNotes(file) IN
  /\ Arrives(w, Request("create", <<>>, body))
  /\ Cardinality(drawn) < MaxIds
  /\ IF ~NoteCreateValid(body)
       THEN Returns(w, Response(422, <<>>), <<>>) /\ UNCHANGED drawn
       ELSE LET id == Uuid4(drawn) IN
              /\ drawn' = drawn \cup {id}
              /\ GoesToSave(w, Insert0(loaded, NewNote(id, NoteCreate(body))))

\* update_note, up to the call of _save_notes.
UpdateNote(w, note_id, body) ==
  LET loaded == LoadNotes(file) IN
  /\ Arrives(w, Request("update", note_id, body))
  /\ UNCHANGED drawn
  /\ IF Matches(loaded, note_id) = {}
       THEN Returns(w, Response(404, <<>>), loaded)
       ELSE GoesToSave(w, Updated(loaded, note_id, NoteUpdate(body)))

\* delete_note, up to the call of _save_notes.
DeleteNote(w, note_id) ==
  LET loaded == LoadNotes(file) IN
  /\ Arrives(w, Request("delete", note_id, Body(Absent, Absent, Absent)))
  /\ UNCHANGED drawn
  /\ IF Len(Filtered(loaded, note_id)) = Len(loaded)
       THEN Returns(w, Response(404, <<>>), loaded)
       ELSE GoesToSave(w, Filtered(loaded, note_id))

\* _save_notes: DATA_FILE.open("w").
SaveOpen(w) ==
  /\ pc[w] = "open"
  /\ IF OpenFails(file)
       THEN /\ pc' = [pc EXCEPT ![w] = "done"]
            /\ resp' = [resp EXCEPT ![w] = Response(500, <<>>)]
            /\ file' = file
       ELSE /\ pc' = [pc EXCEPT ![w] = "write"]
            /\ resp' = resp
            /\ file' = Truncated(file)
  /\ UNCHANGED <<drawn, req, notes, before, stable, created, deleted>>

\* What the handler returns after _save_notes.
Returned(r, local) ==
  CASE r.op = "create" -> Validated(201, <<local[1]>>)
    [] r.op = "update" -> Validated(200, <<local[FirstMatch(local, r.id)]>>)
    [] r.op = "delete" -> Response(200, <<>>)

\* _save_notes: json.dump and the close of the file; the handler returns.
SaveWrite(w) ==
  /\ pc[w] = "write"
  /\ file' = Written(file, JsonDump(notes[w]))
  /\ stable' = notes[w]
  /\ pc' = [pc EXCEPT ![w] = "done"]
  /\ resp' = [resp EXCEPT ![w] = Returned(req[w], notes[w])]
  /\ created' = IF req[w].op = "create"
                  THEN created \cup {DictGet(notes[w][1], KeyId).s} ELSE created
  /\ deleted' = IF req[w].op = "delete"
                  THEN deleted \cup {req[w].id} ELSE deleted
  /\ UNCHANGED <<drawn, req, notes, before>>

\* The response is out and the handler's frame is gone: the worker is free.
Finish(w) ==
  /\ pc[w] = "done"
  /\ pc' = [pc EXCEPT ![w] = "idle"]
  /\ req' = [req EXCEPT ![w] = NoRequest]
  /\ notes' = [notes EXCEPT ![w] = <<>>]
  /\ resp' = [resp EXCEPT ![w] = NoResponse]
  /\ before' = [before EXCEPT ![w] = File(FALSE, "rw", <<>>)]
  /\ UNCHANGED <<file, drawn, stable, created, deleted>>

\* The steps of worker w, its request bodies drawn from the two sets.
Step(w, creates, updates) ==
  \/ ListNotes(w)
  \/ \E body \in creates : CreateNote(w, body)
  \/ \E note_id \in AllIds, body \in updates : UpdateNote(w, note_id, body)
  \/ \E note_id \in AllIds : DeleteNote(w, note_id)
  \/ SaveOpen(w)
  \/ SaveWrite(w)
  \/ Finish(w)

\* Requests handled one after the other.
InitSeq == InitWith(StartFiles)
NextSeq == Step(1, CreateBodies, UpdateBodies)
SpecSeq == InitSeq /\ [][NextSeq]_vars

\* The same, the data file possibly one the process may not read.
InitAccess == InitWith(StartFilesAnyAccess)
SpecAccess == InitAccess /\ [][NextSeq]_vars

\* Requests handled by the threads of the pool, overlapping (the handlers
\* are plain `def`s, which FastAPI runs in its thread pool).
Init == InitWith(StartFiles)
Next == \E w \in Workers : Step(w, FewCreateBodies, FewUpdateBodies)
Spec == Init /\ [][Next]_vars

-----------------------------------------------------------------------------
(* What the properties below speak of.  In SpecSeq and SpecAccess worker 1 *)
(* serves every request; at pc[1] = "done" its request req[1] has been     *)
(* answered by resp[1], and before[1] is the data file it found.           *)

\* What List() returns now, and what it returned when the request arrived.
Listed == LoadNotes(file)
ListedBefore == LoadNotes(before[1])

Completed(op) == pc[1] = "done" /\ req[1].op = op

IdsOf(list) == [k \in 1..Len(list) |-> DictGet(list[k], KeyId)]
Holds(list, id) == \E k \in 1..Len(list) : DictGet(list[k], KeyId) = JStr(id)
PositionOf(list, id) ==
  CHOOSE k \in 1..Len(list) : DictGet(list[k], KeyId) = JStr(id)
Without(list, id) ==
  LET keep == {k \in 1..Len(list) : DictGet(list[k], KeyId) # JStr(id)}
      nth(j) == CHOOSE k \in keep : Cardinality({i \in keep : i < k}) = j - 1
  IN [j \in 1..Cardinality(keep) |-> list[nth(j)]]

Strings(list) == [k \in 1..Len(list) |-> JStr(list[k])]
\* A complete note: the four fields, each populated.
NoteOf(id, title, content, tags) ==
  [t |-> "obj", s |-> <<>>,
   keys |-> <<KeyId, KeyTitle, KeyContent, KeyTags>>,
   kids |-> <<id, title, content, tags>>]

-----------------------------------------------------------------------------
\* C1: operations that overlap leave the store as some serial order of
\* them would.  In every serial order a note whose Create answered 201
\* stays in the store until a Delete of its id answers 200; so once no
\* request is in flight, every created and not deleted id is listed.
C1_NoLostUpdate ==
  (\A w \in Workers : pc[w] \in {"idle", "done"})
    => \A id \in created \ deleted : Holds(Listed, id)

\* C10: a List() observes the complete collection from before a write in
\* progress or the complete collection that write is storing: the list
\* the last completed save wrote, or the list of a worker that has the
\* file open for writing.
C10_ListSeesCompleteCollection ==
  [][\A w \in Workers :
       (pc[w] = "idle" /\ pc'[w] = "done" /\ req'[w].op = "list")
         => notes'[w] \in {stable} \cup {notes[v] : v \in {u \in Workers : pc[u] = "write"}}
    ]_vars

-----------------------------------------------------------------------------
\* C2: every stored note has a title of length at least 1.
C2_TitleNeverEmpty ==
  \A k \in 1..Len(Listed) : Len(DictGet(Listed[k], KeyTitle).s) >= 1

-----------------------------------------------------------------------------
\* C3: no two stored notes have the same id; a Create assigns an id that
\* no note held when the request arrived; an Update leaves the ids as
\* they were.
C3_UniqueIds ==
  LET ids == IdsOf(Listed) IN
  /\ \A i, j \in 1..Len(ids) : ids[i] = ids[j] => i = j
  /\ (Completed("create") /\ resp[1].status = 201)
       => ~Holds(ListedBefore, DictGet(resp[1].body[1], KeyId).s)
  /\ Completed("update") => ids = IdsOf(ListedBefore)

\* A second note has been created beside a first, and a note of a store
\* of two has been updated.
C3_Witness ==
  \/ Completed("create") /\ resp[1].status = 201 /\ Len(ListedBefore) = 1
  \/ Completed("update") /\ resp[1].status = 200 /\ Len(Listed) = 2

-----------------------------------------------------------------------------
\* The field of the updated note under C4 as stated: a field present in
\* the body takes the supplied value (null is a value a body can supply),
\* an absent one keeps the old value.
C4_FieldAsStated(field, old, supplied) ==
  CASE field.st = "absent" -> old
    [] field.st = "null" -> JNone
    [] field.st = "value" -> supplied

\* The same as amended: only a field present with a value other than null
\* takes the supplied value.
C4_FieldAmended(field, old, supplied) ==
  IF field.st = "value" THEN supplied ELSE old

\* C4 as stated: Update(id, partial) on an existing id sets the fields
\* present in the payload to the supplied values and leaves the absent
\* fields, the id, the other notes and the order untouched.
C4_UpdateSetsPresentFields ==
  LET was == ListedBefore IN
  (Completed("update") /\ Holds(was, req[1].id)) =>
    LET k == PositionOf(was, req[1].id)
        old == was[k]
        body == req[1].body
    IN Listed = [was EXCEPT ![k] =
         NoteOf(DictGet(old, KeyId),
                C4_FieldAsStated(body.title, DictGet(old, KeyTitle), JStr(body.title.v)),
                C4_FieldAsStated(body.content, DictGet(old, KeyContent), JStr(body.content.v)),
                C4_FieldAsStated(body.tags, DictGet(old, KeyTags), JArr(Strings(body.tags.v))))]

\* C4 amended: Update(id, partial) on an existing id sets the fields that
\* are present in the payload with a value other than null to the
\* supplied values; a field that is absent or null keeps its stored
\* value; the id, the other notes and the order are untouched.
C4_UpdateSetsNonNullFields ==
  LET was == ListedBefore IN
  (Completed("update") /\ Holds(was, req[1].id)) =>
    LET k == PositionOf(was, req[1].id)
        old == was[k]
        body == req[1].body
    IN Listed = [was EXCEPT ![k] =
         NoteOf(DictGet(old, KeyId),
                C4_FieldAmended(body.title, DictGet(old, KeyTitle), JStr(body.title.v)),
                C4_FieldAmended(body.content, DictGet(old, KeyContent), JStr(body.content.v)),
                C4_FieldAmended(body.tags, DictGet(old, KeyTags), JArr(Strings(body.tags.v))))]

\* The second of two notes has been updated by a body that sets one
\* field, nulls another and leaves out the third, and a field changed.
C4_Witness ==
  /\ Completed("update") /\ resp[1].status = 200
  /\ Len(ListedBefore) = 2 /\ PositionOf(ListedBefore, req[1].id) = 2
  /\ req[1].body.title.st = "null" /\ req[1].body.content.st = "value"
  /\ req[1].body.tags.st = "absent"
  /\ Listed # ListedBefore

-----------------------------------------------------------------------------
\* C5: Update and Delete of an id that no stored note holds answer 404 and
\* leave the data file exactly as it was.
C5_UnknownIdNotFound ==
  ((Completed("update") \/ Completed("delete")) /\ ~Holds(ListedBefore, req[1].id))
    => resp[1].status = 404 /\ file = before[1]

\* Both have been answered so on a store that holds another note.
C5_Witness ==
  /\ Completed("delete") /\ Len(ListedBefore) = 1
  /\ ~Holds(ListedBefore, req[1].id) /\ resp[1].status = 404

-----------------------------------------------------------------------------
-----------------------------------------------------------------------------
-----------------------------------------------------------------------------
\* A data file that is missing, unreadable (no permission, or bytes that
\* are no UTF-8), not valid JSON, or valid JSON that is no array.
C8_BadFile(f) ==
  \/ ~f.exists
  \/ f.access \notin {"rw", "r"}
  \/ ~JsonLoad(f.text).ok
  \/ JsonLoad(f.text).val.t # "arr"

\* What C8 says of List, Update and Delete on such a file.
C8_ReadsAsEmpty ==
  /\ Completed("list") => resp[1] = [status |-> 200, body |-> <<>>]
  /\ (Completed("update") \/ Completed("delete"))
       => resp[1].status = 404 /\ file = before[1]

\* A Create has succeeded and the store holds exactly the new note.
C8_CreatedAlone ==
  resp[1].status = 201 /\ Len(Listed) = 1 /\ Listed = resp[1].body

\* C8 as stated: on such a file every operation behaves as on an empty
\* store: List returns nothing, Update and Delete answer 404, and a Create
\* that passes the schema succeeds and leaves exactly the new note.
C8_BadFileIsEmptyStore ==
  (pc[1] = "done" /\ C8_BadFile(before[1])) =>
    /\ C8_ReadsAsEmpty
    /\ (Completed("create") /\ resp[1].status # 422) => C8_CreatedAlone

\* C8 amended: on such a file List returns nothing and Update and Delete
\* answer 404; a Create that passes the schema succeeds and leaves exactly
\* the new note when the file is missing or the process may read and
\* write it; when the process may not write the file, Create answers 500
\* and leaves the file as it was; when it may write but not read it,
\* Create answers 201 and writes the new note alone, while the store goes
\* on reading as empty.
C8_BadFileIsEmptyStoreIfWritable ==
  (pc[1] = "done" /\ C8_BadFile(before[1])) =>
    /\ C8_ReadsAsEmpty
    /\ (Completed("create") /\ resp[1].status # 422) =>
         CASE ~before[1].exists \/ before[1].access = "rw" -> C8_CreatedAlone
           [] before[1].exists /\ before[1].access \in {"r", "none"} ->
                resp[1].status = 500 /\ file = before[1]
           [] before[1].exists /\ before[1].access = "w" ->
                /\ resp[1].status = 201 /\ Listed = <<>>
                /\ JsonLoad(file.text).val.kids = resp[1].body

\* A Create has succeeded on a file that held a JSON object, and one has
\* failed on a cut-short file the process may not write.
C8_Witness ==
  /\ Completed("create")
  /\ \/ resp[1].status = 201 /\ before[1].text = <<"{", "}">>
     \/ resp[1].status = 500 /\ before[1].access = "r"

-----------------------------------------------------------------------------
\* C9: whenever no save is under way, reloading the data file gives the
\* list that the last completed call held in memory and saved: the same
\* notes, with the same id, title, content and tags, in the same order.
C9_ReloadGivesSavedNotes ==
  pc[1] # "write" => Listed = stable

\* Two notes have been saved, one of them with a quote in its title, a
\* newline and a backslash in its content, and two tags.
C9_Witness ==
  /\ pc[1] = "done" /\ req[1].op \in {"create", "update"} /\ resp[1].status \in {200, 201}
  /\ Len(stable) = 2
  /\ \E k \in 1..2 :
       /\ DictGet(stable[k], KeyTitle).s = TitleA
       /\ DictGet(stable[k], KeyContent).s = ContentC
       /\ Len(DictGet(stable[k], KeyTags).kids) = 2
====
